---- MODULE Spec2Model ----
(***************************************************************************)
(* Model of eta_calculator.py: calculate_eta (time to memory exhaustion)   *)
(* and its helper get_bytes_used.                                          *)
(*                                                                         *)
(* calculate_eta is modelled statement block by statement block: every     *)
(* block is an operator from the record of the function's locals to the    *)
(* record after the block, and an action that applies it.  The loops take  *)
(* one step per test of their condition, so that termination is something  *)
(* the model checker decides.  get_bytes_used is a pure function and is     *)
(* modelled as an operator that walks the list as the for loop does.        *)
(***************************************************************************)
EXTENDS Integers, Sequences, FiniteSets, TLC

VARIABLES pc, error, result, user_input, total_memory, process_durations,
          max_process_duration, bytes_used, time_taken, min_multiplier,
          max_multiplier, closest_multiplier, min_time_taken, max_time_taken,
          closest_time, current_time

vars == <<pc, error, result, user_input, total_memory, process_durations,
          max_process_duration, bytes_used, time_taken, min_multiplier,
          max_multiplier, closest_multiplier, min_time_taken, max_time_taken,
          closest_time, current_time>>

(* Bounds of the model *)
MaxCapacity == 10
MaxProcs == 3
MaxDuration == 4
MaxTime == 12

SeqsUpTo(n, S) == UNION {[1..k -> S] : k \in 0..n}

(***************************************************************************)
(* list.sort(): ascending insertion sort.                                  *)
(***************************************************************************)
Insert(x, s) ==
    LET k == Cardinality({i \in 1..Len(s) : s[i] <= x})
    IN  SubSeq(s, 1, k) \o <<x>> \o SubSeq(s, k + 1, Len(s))

RECURSIVE sort(_)
sort_identity(s) == s

sort(s) == IF s = <<>> THEN <<>> ELSE Insert(Head(s), sort(Tail(s)))

(***************************************************************************)
(* get_bytes_used(current_time, process_durations): the for loop adds      *)
(* current_time // p_time for each element and breaks at the first element *)
(* greater than current_time.                                              *)
(***************************************************************************)
RECURSIVE get_bytes_used(_, _)
RECURSIVE get_bytes_used_break_ge(_, _)
get_bytes_used_break_ge(t, ps) ==
    IF ps = <<>> THEN 0
    ELSE IF Head(ps) >= t THEN 0
    ELSE (t \div Head(ps)) + get_bytes_used_break_ge(t, Tail(ps))

get_bytes_used(t, ps) ==
    IF ps = <<>> THEN 0
    ELSE IF Head(ps) > t THEN 0
    ELSE (t \div Head(ps)) + get_bytes_used(t, Tail(ps))

(***************************************************************************)
(* The locals of one call of calculate_eta, as a record.                   *)
(***************************************************************************)
State ==
    [pc |-> pc, error |-> error, result |-> result, user_input |-> user_input,
     total_memory |-> total_memory, process_durations |-> process_durations,
     max_process_duration |-> max_process_duration, bytes_used |-> bytes_used,
     time_taken |-> time_taken, min_multiplier |-> min_multiplier,
     max_multiplier |-> max_multiplier,
     closest_multiplier |-> closest_multiplier,
     min_time_taken |-> min_time_taken, max_time_taken |-> max_time_taken,
     closest_time |-> closest_time]

(* The locals on entry: nothing is assigned yet (0 stands for unassigned). *)
InitState(input) ==
    [pc |-> "entry", error |-> "none", result |-> 0, user_input |-> input,
     total_memory |-> 0, process_durations |-> <<>>,
     max_process_duration |-> 0, bytes_used |-> 0, time_taken |-> 0,
     min_multiplier |-> 0, max_multiplier |-> 0, closest_multiplier |-> 0,
     min_time_taken |-> 0, max_time_taken |-> 0, closest_time |-> 0]

Start(n) ==
    /\ pc = n.pc
    /\ error = n.error
    /\ result = n.result
    /\ user_input = n.user_input
    /\ total_memory = n.total_memory
    /\ process_durations = n.process_durations
    /\ max_process_duration = n.max_process_duration
    /\ bytes_used = n.bytes_used
    /\ time_taken = n.time_taken
    /\ min_multiplier = n.min_multiplier
    /\ max_multiplier = n.max_multiplier
    /\ closest_multiplier = n.closest_multiplier
    /\ min_time_taken = n.min_time_taken
    /\ max_time_taken = n.max_time_taken
    /\ closest_time = n.closest_time

Apply(n) ==
    /\ pc' = n.pc
    /\ error' = n.error
    /\ result' = n.result
    /\ user_input' = n.user_input
    /\ total_memory' = n.total_memory
    /\ process_durations' = n.process_durations
    /\ max_process_duration' = n.max_process_duration
    /\ bytes_used' = n.bytes_used
    /\ time_taken' = n.time_taken
    /\ min_multiplier' = n.min_multiplier
    /\ max_multiplier' = n.max_multiplier
    /\ closest_multiplier' = n.closest_multiplier
    /\ min_time_taken' = n.min_time_taken
    /\ max_time_taken' = n.max_time_taken
    /\ closest_time' = n.closest_time
    /\ UNCHANGED current_time

(* Lines 67-74: unpack the input; zero memory returns 0 at once. *)
ExtractInput(s) ==
    LET tm == Head(s.user_input)
        pd == Tail(s.user_input)
    IN  IF tm = 0
        THEN [s EXCEPT !.total_memory = tm, !.process_durations = pd,
                       !.result = 0, !.pc = "done"]
        ELSE [s EXCEPT !.total_memory = tm, !.process_durations = pd,
                       !.pc = "sort"]

(* Line 77: process_durations.sort() *)
SortDurations(s) ==
    [s EXCEPT !.process_durations = sort(s.process_durations), !.pc = "reference"]

(* Lines 80-81: the last element (IndexError on an empty list) and the     *)
(* bytes used at that time.                                                *)
ReferencePoint_unchecked(s) ==
    LET n == Len(s.process_durations)
        m == IF n = 0 THEN 0 ELSE s.process_durations[n]
    IN  [s EXCEPT !.max_process_duration = m,
                  !.bytes_used = get_bytes_used(m, s.process_durations),
                  !.pc = "branch"]

ReferencePoint(s) ==
    IF s.process_durations = <<>>
    THEN [s EXCEPT !.error = "IndexError", !.pc = "error"]
    ELSE LET m == s.process_durations[Len(s.process_durations)]
         IN  [s EXCEPT !.max_process_duration = m,
                       !.bytes_used = get_bytes_used(m, s.process_durations),
                       !.pc = "branch"]

(* Lines 84-98: the three-way branch on bytes_used against total_memory.   *)
Branch(s) ==
    IF s.bytes_used = s.total_memory
    THEN [s EXCEPT !.time_taken = s.max_process_duration,
                   !.result = s.max_process_duration, !.pc = "done"]
    ELSE IF s.bytes_used > s.total_memory
    THEN [s EXCEPT !.time_taken = s.process_durations[1], !.pc = "scan_init"]
    ELSE IF s.bytes_used = 0
    THEN [s EXCEPT !.error = "ZeroDivisionError", !.pc = "error"]
    ELSE [s EXCEPT !.min_multiplier = 1,
                   !.max_multiplier = s.total_memory \div s.bytes_used,
                   !.closest_multiplier = 1,
                   !.pc = "multiplier_search"]

(* Lines 101-110, one test of the while condition; on exit lines 117-119.  *)
MultiplierSearch_no_advance(s) ==
    IF s.min_multiplier < s.max_multiplier
    THEN LET multiplier == (s.min_multiplier + s.max_multiplier) \div 2
             tt == s.max_process_duration * multiplier
             bu == get_bytes_used(tt, s.process_durations)
         IN  IF bu > s.total_memory
             THEN [s EXCEPT !.time_taken = tt, !.bytes_used = bu,
                            !.max_multiplier = multiplier - 1]
             ELSE [s EXCEPT !.time_taken = tt, !.bytes_used = bu,
                            !.closest_multiplier = multiplier,
                            !.min_multiplier = multiplier]
    ELSE [s EXCEPT !.min_time_taken = s.max_process_duration * s.closest_multiplier,
                   !.max_time_taken = s.max_process_duration * (s.closest_multiplier + 1),
                   !.closest_time = s.max_process_duration * s.closest_multiplier,
                   !.pc = "time_search"]

MultiplierSearch(s) ==
    IF s.min_multiplier < s.max_multiplier
    THEN LET multiplier == (s.min_multiplier + s.max_multiplier) \div 2
             tt == s.max_process_duration * multiplier
             bu == get_bytes_used(tt, s.process_durations)
         IN  IF bu > s.total_memory
             THEN [s EXCEPT !.time_taken = tt, !.bytes_used = bu,
                            !.max_multiplier = multiplier - 1]
             ELSE [s EXCEPT !.time_taken = tt, !.bytes_used = bu,
                            !.closest_multiplier = multiplier,
                            !.min_multiplier = multiplier + 1]
    ELSE [s EXCEPT !.min_time_taken = s.max_process_duration * s.closest_multiplier,
                   !.max_time_taken = s.max_process_duration * (s.closest_multiplier + 1),
                   !.closest_time = s.max_process_duration * s.closest_multiplier,
                   !.pc = "time_search"]

(* Lines 122-130, one test of the while condition; on exit line 132.       *)
TimeSearch(s) ==
    IF s.min_time_taken < s.max_time_taken
    THEN LET tt == (s.min_time_taken + s.max_time_taken) \div 2
             bu == get_bytes_used(tt, s.process_durations)
         IN  IF bu > s.total_memory
             THEN [s EXCEPT !.time_taken = tt, !.bytes_used = bu,
                            !.max_time_taken = tt - 1]
             ELSE [s EXCEPT !.time_taken = tt, !.bytes_used = bu,
                            !.closest_time = s.min_time_taken,
                            !.min_time_taken = tt + 1]
    ELSE [s EXCEPT !.time_taken = s.closest_time, !.pc = "scan_init"]

(* Line 138: bytes used at the time the scan starts from. *)
ScanInit(s) ==
    [s EXCEPT !.bytes_used = get_bytes_used(s.time_taken, s.process_durations),
              !.pc = "linear_scan"]

(* Lines 142-146, one test of the while condition; on exit the return.     *)
LinearScan_return_time(s) ==
    IF s.bytes_used < s.total_memory
    THEN [s EXCEPT !.bytes_used = get_bytes_used(s.time_taken, s.process_durations),
                   !.time_taken = s.time_taken + 1]
    ELSE [s EXCEPT !.result = s.time_taken, !.pc = "done"]

LinearScan(s) ==
    IF s.bytes_used < s.total_memory
    THEN [s EXCEPT !.bytes_used = get_bytes_used(s.time_taken, s.process_durations),
                   !.time_taken = s.time_taken + 1]
    ELSE [s EXCEPT !.result = s.time_taken - 1, !.pc = "done"]

(***************************************************************************)
(* calculate_eta as a function: the blocks above run from entry to the     *)
(* return (or to the exception).                                           *)
(***************************************************************************)
Step(s) ==
    CASE s.pc = "entry" -> ExtractInput(s)
      [] s.pc = "sort" -> SortDurations(s)
      [] s.pc = "reference" -> ReferencePoint(s)
      [] s.pc = "branch" -> Branch(s)
      [] s.pc = "multiplier_search" -> MultiplierSearch(s)
      [] s.pc = "time_search" -> TimeSearch(s)
      [] s.pc = "scan_init" -> ScanInit(s)
      [] s.pc = "linear_scan" -> LinearScan(s)
      [] OTHER -> s

RECURSIVE Run(_)
Run(s) == IF s.pc \in {"done", "error"} THEN s ELSE Run(Step(s))

calculate_eta(input) == Run(InitState(input)).result

(***************************************************************************)
(* One call of calculate_eta on an input list [capacity, p1, ..., pn].     *)
(***************************************************************************)
Inputs ==
    {<<c>> \o ps : c \in 0..MaxCapacity, ps \in SeqsUpTo(MaxProcs, 1..MaxDuration)}

Init ==
    /\ \E input \in Inputs : Start(InitState(input))
    /\ current_time = 0

DoExtractInput == pc = "entry" /\ Apply(ExtractInput(State))
DoSortDurations == pc = "sort" /\ Apply(SortDurations(State))
DoReferencePoint == pc = "reference" /\ Apply(ReferencePoint(State))
DoBranch == pc = "branch" /\ Apply(Branch(State))
DoMultiplierSearch == pc = "multiplier_search" /\ Apply(MultiplierSearch(State))
DoTimeSearch == pc = "time_search" /\ Apply(TimeSearch(State))
DoScanInit == pc = "scan_init" /\ Apply(ScanInit(State))
DoLinearScan == pc = "linear_scan" /\ Apply(LinearScan(State))

Next ==
    \/ DoExtractInput
    \/ DoSortDurations
    \/ DoReferencePoint
    \/ DoBranch
    \/ DoMultiplierSearch
    \/ DoTimeSearch
    \/ DoScanInit
    \/ DoLinearScan

Spec == Init /\ [][Next]_vars

(* The call is one synchronous chain: a step that can be taken is taken. *)
FairSpec == Spec /\ WF_vars(Next)

(***************************************************************************)
(* One call of get_bytes_used on a time and a list of durations.           *)
(***************************************************************************)
InitBytes ==
    /\ \E ps \in SeqsUpTo(MaxProcs, 1..MaxDuration) :
          Start([InitState(<<>>) EXCEPT !.pc = "bytes_call",
                                        !.process_durations = ps])
    /\ current_time \in 0..MaxTime

CallGetBytesUsed ==
    /\ pc = "bytes_call"
    /\ bytes_used' = get_bytes_used(current_time, process_durations)
    /\ pc' = "bytes_done"
    /\ UNCHANGED <<error, result, user_input, total_memory, process_durations,
                   max_process_duration, time_taken, min_multiplier,
                   max_multiplier, closest_multiplier, min_time_taken,
                   max_time_taken, closest_time, current_time>>

NextBytes == CallGetBytesUsed

SpecBytes == InitBytes /\ [][NextBytes]_vars

(***************************************************************************)
(* Reference notions the properties are stated against.                    *)
(***************************************************************************)
Capacity == Head(user_input)
Periods == Tail(user_input)
ValidInput == Len(user_input) > 1

(* consumption(t) = sum over all periods p of floor(t / p), no early exit. *)
RECURSIVE consumption(_, _)
consumption(t, ps) ==
    IF ps = <<>> THEN 0 ELSE (t \div Head(ps)) + consumption(t, Tail(ps))

(* The smallest time t >= from with consumption(t) >= c. *)
RECURSIVE CrossingFrom(_, _, _)
CrossingFrom(from, c, ps) ==
    IF consumption(from, ps) >= c THEN from ELSE CrossingFrom(from + 1, c, ps)

Crossing(c, ps) == CrossingFrom(0, c, ps)

IsSorted(ps) == \A i \in 1..(Len(ps) - 1) : ps[i] <= ps[i + 1]

PermutationsOf(ps) ==
    LET n == Len(ps)
        bij == {f \in [1..n -> 1..n] : \A i, j \in 1..n : f[i] = f[j] => i = j}
    IN  {[i \in 1..n |-> ps[f[i]]] : f \in bij}

MinPeriod == process_durations[1]
RefConsumption == consumption(max_process_duration, process_durations)
PastMultiplierSearch == pc \in {"time_search", "scan_init", "linear_scan", "done"}

(* C1: for capacity >= 0 and a non-empty list of positive periods, the     *)
(* returned time T is the smallest with consumption(T) >= capacity:        *)
(* consumption(T) >= capacity, and consumption(T - 1) < capacity if T > 0. *)
C1_SmallestCrossing ==
    (pc = "done" /\ ValidInput) =>
        /\ consumption(result, Periods) >= Capacity
        /\ result > 0 => consumption(result - 1, Periods) < Capacity

(* C2: for fixed periods the returned time is non-decreasing in capacity:  *)
(* every smaller capacity c1 gives calculate_eta(c1) <= calculate_eta(c2). *)
C2_MonotoneInCapacity ==
    (pc = "done" /\ ValidInput) =>
        \A c1 \in 0..Capacity : calculate_eta(<<c1>> \o Periods) <= result

(* C3: for a single period p and capacity > 0 the returned time is         *)
(* capacity * p, in the equality branch and in the search branch alike.    *)
C3_SinglePeriod ==
    (pc = "done" /\ Len(user_input) = 2 /\ Capacity > 0) =>
        result = Capacity * Periods[1]

C3_Witness ==
    /\ pc = "done"
    /\ Len(user_input) = 2
    /\ Capacity > 2
    /\ Periods[1] > 1
    /\ closest_multiplier > 1
    /\ result = Capacity * Periods[1]

(* C4: for time >= 0 and an ascending list of positive periods,            *)
(* get_bytes_used returns the full sum of floor(time / p): the early break *)
(* changes nothing, and time 0 gives 0.                                    *)
C4_BytesUsedIsConsumption ==
    (pc = "bytes_done" /\ IsSorted(process_durations)) =>
        /\ bytes_used = consumption(current_time, process_durations)
        /\ current_time = 0 => bytes_used = 0

C4_Witness ==
    /\ pc = "bytes_done"
    /\ IsSorted(process_durations)
    /\ Len(process_durations) = 3
    /\ process_durations[1] < current_time
    /\ process_durations[2] = current_time
    /\ process_durations[3] > current_time
    /\ bytes_used = consumption(current_time, process_durations)

(* C5: the returned time does not depend on the order of the periods:      *)
(* every permutation of the period list gives the same result.             *)
C5_OrderInvariant ==
    pc = "done" =>
        \A qs \in PermutationsOf(Periods) :
            calculate_eta(<<Capacity>> \o qs) = result

C5_Witness ==
    /\ pc = "done"
    /\ Capacity > 0
    /\ Len(Periods) = 3
    /\ ~IsSorted(Periods)
    /\ Periods[3] < Periods[1]
    /\ closest_multiplier > 1
    /\ result = calculate_eta(<<Capacity>> \o process_durations)

(* C6: for capacity >= 0 and a non-empty list of positive periods the call *)
(* ends with a non-negative integer result and no error: every loop exits  *)
(* and capacity // refConsumption never divides by zero.                   *)
C6_Terminates ==
    /\ [](ValidInput => error = "none" /\ pc # "error")
    /\ [](ValidInput => <>(pc = "done" /\ result \in Nat))

C6_Witness ==
    /\ pc = "done"
    /\ ValidInput
    /\ error = "none"
    /\ max_multiplier > 1
    /\ min_time_taken > max_process_duration
    /\ time_taken > closest_time + 1
    /\ result \in Nat

(* C7: with an empty period list and capacity > 0 the call fails with the  *)
(* out-of-range access on the last element, before any search loop; it     *)
(* neither returns a time nor runs forever.                                *)
C7_EmptyPeriodsFail ==
    /\ []((Len(user_input) = 1 /\ Capacity > 0) =>
             pc \in {"entry", "sort", "reference", "error"})
    /\ []((Len(user_input) = 1 /\ Capacity > 0) =>
             <>[](pc = "error" /\ error = "IndexError"))

C7_Witness ==
    /\ pc = "error"
    /\ error = "IndexError"
    /\ Len(user_input) = 1
    /\ Capacity > 0
    /\ process_durations = <<>>

(* C8: when capacity > 0 and consumption(maxPeriod) > capacity, the        *)
(* returned time lies between the smallest and the largest period.         *)
C8_ResultWithinPeriods ==
    (pc = "done" /\ total_memory > 0 /\ ValidInput
        /\ RefConsumption > total_memory) =>
        (MinPeriod <= result /\ result <= max_process_duration)

(* C9: when consumption(maxPeriod) < capacity, the closestTime the linear  *)
(* scan starts from is at or before the smallest T with                    *)
(* consumption(T) >= capacity.                                             *)
C9_ClosestTimeBeforeCrossing ==
    (pc = "scan_init" /\ RefConsumption < total_memory) =>
        closest_time <= Crossing(total_memory, process_durations)

(* C10: when consumption(maxPeriod) = refConsumption < capacity, the       *)
(* multiplier search ends with closestMultiplier the largest m in          *)
(* [1, capacity // refConsumption] with consumption(m * maxPeriod) <=      *)
(* capacity.                                                               *)
C10_LargestMultiplier ==
    (PastMultiplierSearch /\ total_memory > 0 /\ ValidInput
        /\ RefConsumption < total_memory) =>
        /\ closest_multiplier \in 1..(total_memory \div RefConsumption)
        /\ consumption(closest_multiplier * max_process_duration,
                       process_durations) <= total_memory
        /\ \A m \in 1..(total_memory \div RefConsumption) :
              consumption(m * max_process_duration, process_durations)
                  <= total_memory => m <= closest_multiplier

====
